---- MODULE Spec2Model ----
(***************************************************************************)
(* A model of meep.py: the dimensional contract (HasDimensions.must_agree), *)
(* the entities that adopt it (Geometry, Block, Source, ContinuousSource),  *)
(* the material model (Dielectric), Geometry composition (add_polygon,      *)
(* add_source) and the hand-off of a Geometry to a Simulation.  The         *)
(* external engine (_meep) is modelled by the calls it receives.            *)
(*                                                                         *)
(* Python objects live in heaps (sequences indexed by object identity), so  *)
(* that sharing by reference is kept: a Block added to a Geometry can still *)
(* be reassigned, and a Material shared by two Blocks sees every append.    *)
(* An optional value is a set: {} is Python's None or a missing attribute,  *)
(* {v} is the value v.                                                      *)
(***************************************************************************)
EXTENDS Integers, Sequences, FiniteSets, TLC

VARIABLES materials, blocks, sources, geometry, meep, last

vars == <<materials, blocks, sources, geometry, meep, last>>

----------------------------------------------------------------------------
(* Bounds of the model. *)

\* Blocks and Sources constructed, together.
MaxObjects == 1
\* Polarizabilities appended, over all materials.
MaxPolarizabilities == 2
\* Lengths of the Geometry's lists.
MaxPolygons == 2
MaxSources == 2

----------------------------------------------------------------------------
(* Input values. *)

None == {}
Some(v) == {v}
Get(o) == CHOOSE v \in o : TRUE

\* Coordinate tuples handed to center and size (None: the argument is left
\* out, or None is assigned): 2-D and 3-D centers; a 2-D point size, a 2-D
\* size with one zero and one non-zero component, and a 3-D size.
CenterArgs == {None, Some(<<1, 0>>), Some(<<1, 0, 0>>)}
SizeArgs == {None, Some(<<0, 0>>), Some(<<0, 2>>), Some(<<0, 0, 0>>)}
SessionSizeArgs == {Some(<<0, 0>>), Some(<<0, 2>>)}

\* Sizes a Geometry is constructed with.
GeometrySizes == {<<4, 4>>, <<4, 4, 4>>}

ComponentArgs == {"Ez", "hx"}
AmplitudeArgs == {2}
WavelengthArgs == {None, Some(0), Some(2)}
FrequencyArgs == {None, Some(3)}
EpsilonArgs == {2}
\* (sigma, omega, gamma) triples
PolarizabilityArgs == {<<5, 1, 1>>, <<3, 2, 1>>}

----------------------------------------------------------------------------
(* Python and numpy primitives. *)

\* str.lower() on the component names used.
lower(s) ==
    CASE s = "Ez" -> "ez"
      [] s = "EX" -> "ex"
      [] OTHER -> s

\* N.array(value): a fixed-length numeric vector with the value's components.
NArray(value) == [i \in 1..Len(value) |-> value[i]]

\* a - b / 2.0 and a + b / 2.0, component by component.  A result is held in
\* half units (the number stored is twice the coordinate), which is exact.
MinusHalf(a, b) == [i \in 1..Len(a) |-> 2 * a[i] - b[i]]
PlusHalf(a, b) == [i \in 1..Len(a) |-> 2 * a[i] + b[i]]

\* 1.0 / wavelength as the fraction num/den; a frequency f is f/1.
Reciprocal(w) == [num |-> 1, den |-> w]
Whole(f) == [num |-> f, den |-> 1]

----------------------------------------------------------------------------
(* Material model. *)

\* Dielectric.__init__
Dielectric(epsilon) == [epsilon |-> epsilon, polarizabilities |-> <<>>]

\* the module-level instance air = Dielectric(1.0); it is object 1 of the heap
air == 1

\* Dielectric.add_polarizability
add_polarizability(m, triple) ==
    [m EXCEPT !.polarizabilities = Append(@, triple)]

----------------------------------------------------------------------------
(* Dimensional contract. *)

\* HasDimensions.__init__ : the fields every entity under the contract has in
\* this model; center and size are attributes that do not exist yet.
HasDimensions == [dimensions |-> None, center |-> None, size |-> None]

\* must_agree without the comparison: every assignment sets the dimensions.
must_agree_relock(obj, name, value) ==
    IF value = None
    THEN [exc |-> "TypeError", obj |-> obj]
    ELSE LET num_dimensions == Len(Get(value))
             stored == IF name = "center"
                       THEN [center |-> Some(NArray(Get(value)))]
                       ELSE [size |-> Some(NArray(Get(value)))]
         IN  [exc |-> "",
              obj |-> stored @@ [dimensions |-> Some(num_dimensions)] @@ obj]

\* must_agree calling the setter before the comparison: a refused value is
\* stored all the same.
must_agree_store_first(obj, name, value) ==
    IF value = None
    THEN [exc |-> "TypeError", obj |-> obj]
    ELSE LET num_dimensions == Len(Get(value))
             stored == IF name = "center"
                       THEN [center |-> Some(NArray(Get(value)))]
                       ELSE [size |-> Some(NArray(Get(value)))]
         IN  IF obj.dimensions = None
             THEN [exc |-> "",
                   obj |-> stored @@ [dimensions |-> Some(num_dimensions)] @@ obj]
             ELSE IF obj.dimensions # Some(num_dimensions)
                  THEN [exc |-> "ValueError", obj |-> stored @@ obj]
                  ELSE [exc |-> "", obj |-> stored @@ obj]

\* The wrapper must_agree puts around a coordinate setter.  value is the
\* optional argument (None has no len()).  The result is the exception
\* raised ("" for none) and the object as the call leaves it.
must_agree(obj, name, value) ==
    IF value = None
    THEN [exc |-> "TypeError", obj |-> obj]
    ELSE LET num_dimensions == Len(Get(value))
             stored == IF name = "center"
                       THEN [center |-> Some(NArray(Get(value)))]
                       ELSE [size |-> Some(NArray(Get(value)))]
         IN  IF obj.dimensions = None
             THEN [exc |-> "",
                   obj |-> stored @@ [dimensions |-> Some(num_dimensions)] @@ obj]
             ELSE IF obj.dimensions # Some(num_dimensions)
                  THEN [exc |-> "ValueError", obj |-> obj]
                  ELSE [exc |-> "", obj |-> stored @@ obj]

----------------------------------------------------------------------------
(* Block. *)

\* Block.material setter: a Material is kept by reference; any other value
\* is converted with float() and wrapped in a new Dielectric.  value is
\* [isMaterial, v]: a reference into the heap, or a number.  The result is
\* the heap after the call and the reference stored.
Block_material(value, heap) ==
    IF value.isMaterial
    THEN [materials |-> heap, ref |-> value.v]
    ELSE [materials |-> Append(heap, Dielectric(value.v)),
          ref |-> Len(heap) + 1]

\* Block.__init__ up to the assignment of material: center and size are
\* assigned only when given.
Block_init(center, size) ==
    LET p0 == HasDimensions
        r1 == IF center # None THEN must_agree(p0, "center", center)
              ELSE [exc |-> "", obj |-> p0]
        r2 == IF size # None THEN must_agree(r1.obj, "size", size)
              ELSE [exc |-> "", obj |-> r1.obj]
    IN  IF r1.exc # "" THEN r1 ELSE r2

----------------------------------------------------------------------------
(* Source and ContinuousSource. *)

\* Source.component setter
Source_component(value) ==
    IF lower(value) \notin {"ex", "ey", "ez"}
    THEN [exc |-> "ValueError", component |-> ""]
    ELSE [exc |-> "", component |-> lower(value)]

\* Source.__init__ : component, size, center and amplitude are assigned in
\* this order, size and center always (None included).
Source_init(component, size, center, amplitude) ==
    LET s0 == HasDimensions @@ [component |-> "", amplitude |-> 0]
        rc == Source_component(component)
        s1 == [s0 EXCEPT !.component = rc.component]
        r1 == must_agree(s1, "size", size)
        r2 == must_agree(r1.obj, "center", center)
    IN  IF rc.exc # "" THEN [exc |-> rc.exc, obj |-> s0]
        ELSE IF r1.exc # "" THEN r1
        ELSE IF r2.exc # "" THEN r2
        ELSE [exc |-> "", obj |-> [r2.obj EXCEPT !.amplitude = amplitude]]

\* What ContinuousSource.__init__ does after Source.__init__: the frequency
\* the time profile is created with, or the exception raised.
ContinuousSource_frequency(wavelength, frequency) ==
    IF wavelength # None /\ frequency # None
    THEN [exc |-> "ValueError", frequency |-> None]
    ELSE IF wavelength # None
         THEN IF Get(wavelength) = 0
              THEN [exc |-> "ZeroDivisionError", frequency |-> None]
              ELSE [exc |-> "", frequency |-> Some(Reciprocal(Get(wavelength)))]
         ELSE IF frequency = None
              THEN [exc |-> "ValueError", frequency |-> None]
              ELSE [exc |-> "", frequency |-> Some(Whole(Get(frequency)))]

\* ContinuousSource.__init__ : Source.__init__ with the default amplitude,
\* then the frequency.
ContinuousSource_init(wavelength, frequency, component, size, center) ==
    LET r == Source_init(component, size, center, 1)
        f == ContinuousSource_frequency(wavelength, frequency)
    IN  IF r.exc # "" THEN [exc |-> r.exc, obj |-> r.obj, frequency |-> None]
        ELSE [exc |-> f.exc, obj |-> r.obj, frequency |-> f.frequency]

\* is_point_source with any() in the place of all().
is_point_source_any(source) ==
    \E i \in 1..Len(Get(source.size)) : Get(source.size)[i] = 0

\* Source.is_point_source : (self.size == 0.0).all()
is_point_source(source) ==
    \A i \in 1..Len(Get(source.size)) : Get(source.size)[i] = 0

----------------------------------------------------------------------------
(* Geometry. *)

\* Geometry.__init__ : only a size of two components creates the grid volume
\* (instance) and sets the dimensions.
Geometry_init(size) ==
    [instance |-> IF Len(size) = 2 THEN Some(1) ELSE None,
     dimensions |-> IF Len(size) = 2 THEN Some(2) ELSE None,
     size |-> NArray(size),
     material_function_instance |-> None,
     material_mode |-> "None",
     polygons |-> <<>>,
     sources |-> <<>>]

\* The state of the external engine before any call.
MeepInit ==
    [region_material_new |-> 0,
     regions |-> <<>>,
     continuous_src_time |-> <<>>,
     structure_polarizabilities |-> <<>>,
     fields_sources |-> <<>>]

\* add_polygon without the comparison of dimensions.
add_polygon_unchecked(g, p, heap, mats, m) ==
    LET polygon == heap[p]
        g1 == [g EXCEPT !.material_function_instance =
                            IF @ = None THEN Some(m.region_material_new + 1)
                            ELSE @,
                        !.material_mode = "region"]
        m1 == IF g.material_function_instance = None
              THEN [m EXCEPT !.region_material_new = @ + 1]
              ELSE m
        material == mats[polygon.material]
    IN  IF polygon.center = None \/ polygon.size = None
        THEN [exc |-> "AttributeError", geometry |-> g1, meep |-> m1]
        ELSE [exc |-> "",
              geometry |-> [g1 EXCEPT !.polygons = Append(@, p)],
              meep |-> [m1 EXCEPT !.regions = Append(@,
                  [lo |-> MinusHalf(Get(polygon.center), Get(polygon.size)),
                   hi |-> PlusHalf(Get(polygon.center), Get(polygon.size)),
                   epsilon |-> material.epsilon,
                   polarizabilities |-> material.polarizabilities])]]

\* add_polygon creating the material function on every call.
add_polygon_renew(g, p, heap, mats, m) ==
    LET polygon == heap[p]
        g1 == [g EXCEPT !.material_function_instance =
                            Some(m.region_material_new + 1),
                        !.material_mode = "region"]
        m1 == [m EXCEPT !.region_material_new = @ + 1]
        material == mats[polygon.material]
    IN  IF polygon.dimensions # g.dimensions
        THEN [exc |-> "ValueError", geometry |-> g, meep |-> m]
        ELSE IF polygon.center = None \/ polygon.size = None
        THEN [exc |-> "AttributeError", geometry |-> g1, meep |-> m1]
        ELSE [exc |-> "",
              geometry |-> [g1 EXCEPT !.polygons = Append(@, p)],
              meep |-> [m1 EXCEPT !.regions = Append(@,
                  [lo |-> MinusHalf(Get(polygon.center), Get(polygon.size)),
                   hi |-> PlusHalf(Get(polygon.center), Get(polygon.size)),
                   epsilon |-> material.epsilon,
                   polarizabilities |-> material.polarizabilities])]]

\* Geometry.add_polygon on polygon p (a reference into the heap blocks),
\* with the material heap mats and the engine state m.  The result is the
\* exception raised, the Geometry and the engine as the call leaves them.
add_polygon(g, p, heap, mats, m) ==
    LET polygon == heap[p]
        g1 == IF g.material_function_instance = None
              THEN [g EXCEPT !.material_function_instance =
                                 Some(m.region_material_new + 1),
                             !.material_mode = "region"]
              ELSE g
        m1 == IF g.material_function_instance = None
              THEN [m EXCEPT !.region_material_new = @ + 1]
              ELSE m
        material == mats[polygon.material]
        region == [lo |-> MinusHalf(Get(polygon.center), Get(polygon.size)),
                   hi |-> PlusHalf(Get(polygon.center), Get(polygon.size)),
                   epsilon |-> material.epsilon,
                   polarizabilities |-> material.polarizabilities]
    IN  IF polygon.dimensions # g.dimensions
        THEN [exc |-> "ValueError", geometry |-> g, meep |-> m]
        ELSE IF g1.material_mode # "region"
        THEN [exc |-> "TypeError", geometry |-> g1, meep |-> m1]
        ELSE IF polygon.center = None \/ polygon.size = None
        THEN [exc |-> "AttributeError", geometry |-> g1, meep |-> m1]
        ELSE [exc |-> "",
              geometry |-> [g1 EXCEPT !.polygons = Append(@, p)],
              meep |-> [m1 EXCEPT !.regions = Append(@, region)]]

\* Geometry.add_source on source s (a reference into the heap sources).
add_source(g, s, heap) ==
    IF heap[s].dimensions # g.dimensions
    THEN [exc |-> "ValueError", geometry |-> g]
    ELSE [exc |-> "", geometry |-> [g EXCEPT !.sources = Append(@, s)]]

----------------------------------------------------------------------------
(* Simulation. *)

\* The inner loop running over the polarizabilities from the last to the
\* first.
RECURSIVE RegionPolarizabilities_reversed(_)
RegionPolarizabilities_reversed(triples) ==
    IF triples = <<>> THEN <<>>
    ELSE RegionPolarizabilities_reversed(Tail(triples))
         \o <<<<Head(triples)[2], Head(triples)[3]>>>>

\* The inner loop of Simulation.__init__ over one region's polarizabilities:
\* structure_add_polarizability receives omega and gamma.
RECURSIVE RegionPolarizabilities(_)
RegionPolarizabilities(triples) ==
    IF triples = <<>> THEN <<>>
    ELSE <<<<Head(triples)[2], Head(triples)[3]>>>>
         \o RegionPolarizabilities(Tail(triples))

\* The loop of Simulation.__init__ over geometry._polygons.
RECURSIVE StructurePolarizabilities(_, _, _)
StructurePolarizabilities(polygons, heap, mats) ==
    IF polygons = <<>> THEN <<>>
    ELSE RegionPolarizabilities(mats[heap[Head(polygons)].material].polarizabilities)
         \o StructurePolarizabilities(Tail(polygons), heap, mats)

\* One turn of the loop over geometry._sources: the call the engine receives.
\* A point source is given its center; a volume source the two corners
\* center - size / 2.0 and center + size / 2.0 (in half units).
FieldsSource(source) ==
    IF is_point_source(source)
    THEN [kind |-> "point",
          component |-> source.component,
          instance |-> Get(source.instance),
          at |-> <<Get(source.center)>>,
          amplitude |-> source.amplitude]
    ELSE [kind |-> "volume",
          component |-> source.component,
          instance |-> Get(source.instance),
          at |-> <<MinusHalf(Get(source.center), Get(source.size)),
                   PlusHalf(Get(source.center), Get(source.size))>>,
          amplitude |-> source.amplitude]

\* The loop over geometry._sources.  A Source that is no ContinuousSource has
\* no _instance attribute: reading it ends the loop with AttributeError.
RECURSIVE FieldsSources(_, _)
FieldsSources(srcs, heap) ==
    IF srcs = <<>> THEN [exc |-> "", calls |-> <<>>]
    ELSE IF heap[Head(srcs)].instance = None
    THEN [exc |-> "AttributeError", calls |-> <<>>]
    ELSE LET rest == FieldsSources(Tail(srcs), heap)
         IN  [exc |-> rest.exc,
              calls |-> <<FieldsSource(heap[Head(srcs)])>> \o rest.calls]

\* Simulation.__init__ : a Geometry without a grid volume has no _instance
\* attribute; otherwise a new structure and new fields receive the
\* polarizabilities, then the sources.
Simulation_init(g, blockHeap, sourceHeap, mats, m) ==
    IF g.instance = None
    THEN [exc |-> "AttributeError", meep |-> m]
    ELSE LET f == FieldsSources(g.sources, sourceHeap)
         IN  [exc |-> f.exc,
              meep |-> [m EXCEPT
                  !.structure_polarizabilities =
                      StructurePolarizabilities(g.polygons, blockHeap, mats),
                  !.fields_sources = f.calls]]

----------------------------------------------------------------------------
(* The call made last and how it ended: what the caller observes. *)

Call(op, obj, exc) ==
    [op |-> op, obj |-> obj, exc |-> exc,
     center |-> None, size |-> None,
     wavelength |-> None, frequency |-> None, component |-> ""]

----------------------------------------------------------------------------
(* Initial state: the module is imported (air exists) and a Geometry has   *)
(* been constructed.                                                       *)

Init ==
    /\ materials = <<Dielectric(1)>>
    /\ blocks = <<>>
    /\ sources = <<>>
    /\ \E size \in GeometrySizes :
          /\ geometry = Geometry_init(size)
          /\ last = [Call("Geometry", 0, "") EXCEPT !.size = Some(size)]
    /\ meep = MeepInit

----------------------------------------------------------------------------
(* Operations. *)

RECURSIVE TotalPolarizabilities(_)
TotalPolarizabilities(heap) ==
    IF heap = <<>> THEN 0
    ELSE Len(Head(heap).polarizabilities) + TotalPolarizabilities(Tail(heap))

\* material.add_polarizability(sigma, omega, gamma)
Add_polarizability(mat, triple) ==
    /\ TotalPolarizabilities(materials) < MaxPolarizabilities
    /\ materials' = [materials EXCEPT ![mat] = add_polarizability(@, triple)]
    /\ last' = Call("add_polarizability", mat, "")
    /\ UNCHANGED <<blocks, sources, geometry, meep>>

\* Block(center, size, material)
New_Block(center, size, material) ==
    /\ Len(blocks) + Len(sources) < MaxObjects
    /\ LET r == Block_init(center, size)
           mt == Block_material(material, materials)
       IN  /\ last' = [Call("Block", IF r.exc = "" THEN Len(blocks) + 1 ELSE 0,
                            r.exc)
                       EXCEPT !.center = center, !.size = size]
           /\ IF r.exc = ""
              THEN /\ blocks' = Append(blocks, r.obj @@ [material |-> mt.ref])
                   /\ materials' = mt.materials
              ELSE UNCHANGED <<blocks, materials>>
    /\ UNCHANGED <<sources, geometry, meep>>

\* block.center = value
Set_Block_center(b, value) ==
    /\ LET r == must_agree(blocks[b], "center", value)
       IN  /\ blocks' = [blocks EXCEPT ![b] = r.obj]
           /\ last' = [Call("Block.center", b, r.exc) EXCEPT !.center = value]
    /\ UNCHANGED <<materials, sources, geometry, meep>>

\* block.size = value
Set_Block_size(b, value) ==
    /\ LET r == must_agree(blocks[b], "size", value)
       IN  /\ blocks' = [blocks EXCEPT ![b] = r.obj]
           /\ last' = [Call("Block.size", b, r.exc) EXCEPT !.size = value]
    /\ UNCHANGED <<materials, sources, geometry, meep>>

\* Source(component, size, center, amplitude)
New_Source(component, size, center, amplitude) ==
    /\ Len(blocks) + Len(sources) < MaxObjects
    /\ LET r == Source_init(component, size, center, amplitude)
       IN  /\ last' = [Call("Source", IF r.exc = "" THEN Len(sources) + 1 ELSE 0,
                            r.exc)
                       EXCEPT !.center = center, !.size = size,
                              !.component = component]
           /\ IF r.exc = ""
              THEN sources' = Append(sources,
                       r.obj @@ [class |-> "Source", instance |-> None])
              ELSE UNCHANGED sources
    /\ UNCHANGED <<materials, blocks, geometry, meep>>

\* ContinuousSource(wavelength, frequency, component, size, center)
New_ContinuousSource(wavelength, frequency, component, size, center) ==
    /\ Len(blocks) + Len(sources) < MaxObjects
    /\ LET r == ContinuousSource_init(wavelength, frequency, component,
                                      size, center)
       IN  /\ last' = [Call("ContinuousSource",
                            IF r.exc = "" THEN Len(sources) + 1 ELSE 0, r.exc)
                       EXCEPT !.center = center, !.size = size,
                              !.component = component,
                              !.wavelength = wavelength,
                              !.frequency = frequency]
           /\ IF r.exc = ""
              THEN /\ meep' = [meep EXCEPT !.continuous_src_time =
                                               Append(@, Get(r.frequency))]
                   /\ sources' = Append(sources,
                          r.obj @@ [class |-> "ContinuousSource",
                                    instance |->
                                        Some(Len(meep.continuous_src_time) + 1)])
              ELSE UNCHANGED <<sources, meep>>
    /\ UNCHANGED <<materials, blocks, geometry>>

\* source.size = value
Set_Source_size(s, value) ==
    /\ LET r == must_agree(sources[s], "size", value)
       IN  /\ sources' = [sources EXCEPT ![s] = r.obj]
           /\ last' = [Call("Source.size", s, r.exc) EXCEPT !.size = value]
    /\ UNCHANGED <<materials, blocks, geometry, meep>>

\* source.center = value
Set_Source_center(s, value) ==
    /\ LET r == must_agree(sources[s], "center", value)
       IN  /\ sources' = [sources EXCEPT ![s] = r.obj]
           /\ last' = [Call("Source.center", s, r.exc) EXCEPT !.center = value]
    /\ UNCHANGED <<materials, blocks, geometry, meep>>

\* geometry.add_polygon(block)
Add_polygon(b) ==
    /\ Len(geometry.polygons) < MaxPolygons
    /\ LET r == add_polygon(geometry, b, blocks, materials, meep)
       IN  /\ geometry' = r.geometry
           /\ meep' = r.meep
           /\ last' = Call("add_polygon", b, r.exc)
    /\ UNCHANGED <<materials, blocks, sources>>

\* geometry.add_source(source)
Add_source(s) ==
    /\ Len(geometry.sources) < MaxSources
    /\ LET r == add_source(geometry, s, sources)
       IN  /\ geometry' = r.geometry
           /\ last' = Call("add_source", s, r.exc)
    /\ UNCHANGED <<materials, blocks, sources, meep>>

\* Simulation(geometry)
New_Simulation ==
    /\ LET r == Simulation_init(geometry, blocks, sources, materials, meep)
       IN  /\ meep' = r.meep
           /\ last' = Call("Simulation", 0, r.exc)
    /\ UNCHANGED <<materials, blocks, sources, geometry>>

----------------------------------------------------------------------------
(* Next-state relations.                                                   *)

MaterialArgs ==
    {[isMaterial |-> TRUE, v |-> mat] : mat \in 1..Len(materials)}
    \cup {[isMaterial |-> FALSE, v |-> e] : e \in EpsilonArgs}

\* Construction of the entities under the dimensional contract and
\* assignment to their coordinate properties, with every argument.
NextContract ==
    \/ \E c \in CenterArgs, z \in SizeArgs, mt \in MaterialArgs :
          New_Block(c, z, mt)
    \/ \E b \in 1..Len(blocks), v \in CenterArgs : Set_Block_center(b, v)
    \/ \E b \in 1..Len(blocks), v \in SizeArgs : Set_Block_size(b, v)
    \/ \E k \in ComponentArgs, z \in SizeArgs, c \in CenterArgs,
          a \in AmplitudeArgs : New_Source(k, z, c, a)
    \/ \E w \in WavelengthArgs, f \in FrequencyArgs, k \in ComponentArgs,
          z \in SizeArgs, c \in CenterArgs :
          New_ContinuousSource(w, f, k, z, c)
    \/ \E s \in 1..Len(sources), v \in SizeArgs : Set_Source_size(s, v)
    \/ \E s \in 1..Len(sources), v \in CenterArgs : Set_Source_center(s, v)

SpecContract == Init /\ [][NextContract]_vars

\* Composition of a Geometry: Blocks, Sources and ContinuousSources are
\* constructed, reassigned and added.
NextCompose ==
    \/ \E c \in CenterArgs, z \in SizeArgs, mt \in MaterialArgs :
          New_Block(c, z, mt)
    \/ \E b \in 1..Len(blocks), v \in CenterArgs : Set_Block_center(b, v)
    \/ \E b \in 1..Len(blocks), v \in SizeArgs : Set_Block_size(b, v)
    \/ \E w \in WavelengthArgs \ {None}, k \in ComponentArgs \ {"hx"},
          z \in SizeArgs \ {None}, c \in CenterArgs \ {None} :
          New_ContinuousSource(w, None, k, z, c)
    \/ \E k \in ComponentArgs \ {"hx"}, z \in SizeArgs \ {None},
          c \in CenterArgs \ {None}, a \in AmplitudeArgs :
          New_Source(k, z, c, a)
    \/ \E s \in 1..Len(sources), v \in SizeArgs : Set_Source_size(s, v)
    \/ \E s \in 1..Len(sources), v \in CenterArgs : Set_Source_center(s, v)
    \/ \E b \in 1..Len(blocks) : Add_polygon(b)
    \/ \E s \in 1..Len(sources) : Add_source(s)

SpecCompose == Init /\ [][NextCompose]_vars

\* Hand-off to a Simulation: Blocks and ContinuousSources (the only type of
\* source add_source is documented to take) are constructed with 2-D
\* coordinates, materials receive polarizabilities, sources are resized, and
\* a Simulation is constructed from the Geometry at any time.
NextSession ==
    \/ \E mat \in 1..Len(materials), t \in PolarizabilityArgs :
          Add_polarizability(mat, t)
    \/ \E mt \in MaterialArgs :
          New_Block(Some(<<1, 0>>), Some(<<0, 2>>), mt)
    \/ \E z \in SessionSizeArgs :
          New_ContinuousSource(Some(2), None, "Ez", z, Some(<<1, 0>>))
    \/ \E s \in 1..Len(sources), v \in SessionSizeArgs : Set_Source_size(s, v)
    \/ \E b \in 1..Len(blocks) : Add_polygon(b)
    \/ \E s \in 1..Len(sources) : Add_source(s)
    \/ New_Simulation

SpecSession == Init /\ [][NextSession]_vars

\* The whole program.
Next == NextContract \/ NextCompose \/ NextSession

Spec == Init /\ [][Next]_vars

----------------------------------------------------------------------------
(* Vocabulary of the properties.                                           *)

BlockSetters == {"Block.center", "Block.size"}
SourceSetters == {"Source.center", "Source.size"}
Setters == BlockSetters \cup SourceSetters
Constructors == {"Block", "Source", "ContinuousSource"}

\* The dimensions of the entity a setter call is made on, in the given heaps.
DimensionsOf(blockHeap, sourceHeap, call) ==
    IF call.op \in BlockSetters THEN blockHeap[call.obj].dimensions
    ELSE sourceHeap[call.obj].dimensions

\* The coordinate tuple a setter call assigns.
Assigned(call) ==
    IF call.op \in {"Block.center", "Source.center"} THEN call.center
    ELSE call.size

\* No entity's dimensions, once set, differ in the next state.
DimensionsKept ==
    /\ \A b \in 1..Len(blocks) :
          blocks[b].dimensions # None
              => blocks'[b].dimensions = blocks[b].dimensions
    /\ \A s \in 1..Len(sources) :
          sources[s].dimensions # None
              => sources'[s].dimensions = sources[s].dimensions

----------------------------------------------------------------------------
(* C1: on a Block or a Source, the first coordinate assignment of length k  *)
(* sets the dimensions from unset to k, every later assignment of another   *)
(* length to center or size fails with ValueError, and the dimensions, once *)
(* set, never change.  A constructor given a center and a size of different *)
(* lengths fails in the same way.                                           *)

C1_Step ==
    /\ DimensionsKept
    /\ (last'.op \in Setters /\ Assigned(last') # None) =>
          LET before == DimensionsOf(blocks, sources, last')
              after == DimensionsOf(blocks', sources', last')
              k == Len(Get(Assigned(last')))
          IN  /\ before = None => (last'.exc = "" /\ after = Some(k))
              /\ (before # None /\ before # Some(k)) => last'.exc = "ValueError"
              /\ (before # None /\ before = Some(k)) => last'.exc = ""
    /\ (/\ last'.op \in Constructors
        /\ last'.center # None /\ last'.size # None
        /\ lower(last'.component) \in {"", "ex", "ey", "ez"}
        /\ Len(Get(last'.center)) # Len(Get(last'.size)))
          => last'.exc = "ValueError"

C1_DimensionalContract == [][C1_Step]_vars

\* A Block whose dimensions were set by its center has refused a size of
\* another length.
C1_Witness ==
    /\ last.op = "Block.size"
    /\ last.exc = "ValueError"
    /\ blocks[last.obj].dimensions = Some(2)
    /\ Len(Get(last.size)) = 3

----------------------------------------------------------------------------
(* C4: a coordinate assignment that fails changes nothing: the entity's     *)
(* dimensions and the stored center and size of every entity are what they  *)
(* were before the assignment, and so is everything else.                   *)

C4_Step ==
    (last'.op \in Setters /\ last'.exc # "") =>
        /\ blocks' = blocks
        /\ sources' = sources
        /\ UNCHANGED <<materials, geometry, meep>>

C4_FailedAssignmentKeepsState == [][C4_Step]_vars

\* A Source holding a 2-D size and center has refused a 3-D size.
C4_Witness ==
    /\ last.op = "Source.size"
    /\ last.exc = "ValueError"
    /\ last.size = Some(<<0, 0, 0>>)
    /\ sources[last.obj].size # None
    /\ sources[last.obj].center # None
    /\ sources[last.obj].dimensions = Some(2)

----------------------------------------------------------------------------
(* C6: a Source constructed without coordinates (size and center left out,  *)
(* a known component) is constructed, with its dimensions unset.            *)

C6_SourceWithoutCoordinates ==
    (/\ last.op \in {"Source", "ContinuousSource"}
     /\ last.size = None /\ last.center = None
     /\ lower(last.component) \in {"ex", "ey", "ez"}
     /\ last.op = "ContinuousSource" =>
           /\ (last.wavelength = None) # (last.frequency = None)
           /\ last.wavelength # Some(0))
        => (last.exc = "" /\ sources[last.obj].dimensions = None)

----------------------------------------------------------------------------
(* C8: a ContinuousSource (with a known component) constructed with only a  *)
(* wavelength w has its time profile created with frequency 1/w; with both  *)
(* a wavelength and a frequency, or with neither, it fails with ValueError  *)
(* and no time profile is created.                                          *)

C8_Step ==
    (last'.op = "ContinuousSource"
         /\ lower(last'.component) \in {"ex", "ey", "ez"}) =>
        /\ (/\ last'.wavelength # None /\ last'.frequency = None
            /\ last'.wavelength # Some(0)) =>
              /\ last'.exc = ""
              /\ meep'.continuous_src_time =
                     Append(meep.continuous_src_time,
                            [num |-> 1, den |-> Get(last'.wavelength)])
        /\ ((last'.wavelength = None) = (last'.frequency = None)) =>
              /\ last'.exc = "ValueError"
              /\ meep' = meep

C8_WavelengthOrFrequency == [][C8_Step]_vars

----------------------------------------------------------------------------
(* C2: the Geometry's dimensions are the number of components of the size   *)
(* it was constructed with.                                                 *)

C2_GeometryDimensions == geometry.dimensions = Some(Len(geometry.size))

----------------------------------------------------------------------------
(* C3 as stated: add_polygon and add_source accept every entity whose       *)
(* dimensions equal the Geometry's.                                         *)

C3_AcceptsEveryMatch ==
    /\ (last.op = "add_polygon"
            /\ blocks[last.obj].dimensions = geometry.dimensions)
          => last.exc = ""
    /\ (last.op = "add_source"
            /\ sources[last.obj].dimensions = geometry.dimensions)
          => last.exc = ""

(* C3, amended: add_polygon and add_source refuse with ValueError every     *)
(* entity whose dimensions differ from the Geometry's; add_source accepts   *)
(* every source whose dimensions equal them, and add_polygon every Block    *)
(* whose dimensions equal them and whose center and size have both been     *)
(* assigned (a Block lacking one of them, dimensions equal, is refused with *)
(* AttributeError and not appended).  Every element of the polygon list and *)
(* of the source list has the dimensions of the Geometry.                   *)

C3_ListsAgree ==
    /\ \A i \in 1..Len(geometry.polygons) :
          blocks[geometry.polygons[i]].dimensions = geometry.dimensions
    /\ \A i \in 1..Len(geometry.sources) :
          sources[geometry.sources[i]].dimensions = geometry.dimensions

C3_Step ==
    /\ last'.op = "add_polygon" =>
          LET polygon == blocks[last'.obj]
              complete == polygon.center # None /\ polygon.size # None
          IN  /\ polygon.dimensions # geometry.dimensions =>
                    /\ last'.exc = "ValueError"
                    /\ geometry'.polygons = geometry.polygons
              /\ (polygon.dimensions = geometry.dimensions /\ complete) =>
                    /\ last'.exc = ""
                    /\ geometry'.polygons = Append(geometry.polygons, last'.obj)
              /\ (polygon.dimensions = geometry.dimensions /\ ~complete) =>
                    /\ last'.exc = "AttributeError"
                    /\ geometry'.polygons = geometry.polygons
    /\ last'.op = "add_source" =>
          LET source == sources[last'.obj]
          IN  /\ source.dimensions # geometry.dimensions =>
                    /\ last'.exc = "ValueError"
                    /\ geometry'.sources = geometry.sources
              /\ source.dimensions = geometry.dimensions =>
                    /\ last'.exc = ""
                    /\ geometry'.sources = Append(geometry.sources, last'.obj)

C3_DimensionsCheckedAtAdd == []C3_ListsAgree /\ [][C3_Step]_vars

\* A Block of the Geometry's dimensions has been appended.
C3_Witness ==
    /\ last.op = "add_polygon"
    /\ last.exc = ""
    /\ geometry.polygons # <<>>
    /\ geometry.dimensions = Some(2)
    /\ blocks[last.obj].dimensions = Some(2)

----------------------------------------------------------------------------
(* C5: a failed add_polygon or add_source leaves the Geometry as it was:    *)
(* polygon list, source list, material mode and material function.          *)

C5_Step ==
    (last'.op \in {"add_polygon", "add_source"} /\ last'.exc # "") =>
        /\ geometry'.polygons = geometry.polygons
        /\ geometry'.sources = geometry.sources
        /\ geometry'.material_mode = geometry.material_mode
        /\ geometry'.material_function_instance =
               geometry.material_function_instance

C5_FailedAddKeepsGeometry == [][C5_Step]_vars

----------------------------------------------------------------------------
(* C7: the material function is created, and the material mode set to       *)
(* "region", once: by a successful add_polygon when none exists yet; an     *)
(* add_polygon that finds one keeps it, and no add_polygon fails with the   *)
(* TypeError of a material function defined in another way.  The mode is   *)
(* unset or "region", and it is "region" exactly when the material         *)
(* function exists.                                                         *)

C7_Modes ==
    /\ geometry.material_mode \in {"None", "region"}
    /\ (geometry.material_mode = "region")
           = (geometry.material_function_instance # None)
    /\ meep.region_material_new <= 1
    /\ (geometry.material_function_instance # None)
           = (meep.region_material_new = 1)
    /\ geometry.polygons # <<>> => geometry.material_mode = "region"

C7_Step ==
    /\ last'.op = "add_polygon" => last'.exc # "TypeError"
    /\ (last'.op = "add_polygon" /\ last'.exc = "") =>
          IF geometry.material_function_instance = None
          THEN /\ meep'.region_material_new = meep.region_material_new + 1
               /\ geometry'.material_function_instance # None
               /\ geometry'.material_mode = "region"
          ELSE /\ meep'.region_material_new = meep.region_material_new
               /\ geometry'.material_function_instance =
                      geometry.material_function_instance
               /\ geometry'.material_mode = "region"

C7_MaterialModeOnce == []C7_Modes /\ [][C7_Step]_vars

\* Two regions have been added and the material function was created once.
C7_Witness ==
    /\ Len(geometry.polygons) = 2
    /\ last.op = "add_polygon" /\ last.exc = ""
    /\ meep.region_material_new = 1
    /\ geometry.material_mode = "region"

----------------------------------------------------------------------------
(* C9: is_point_source is true exactly when every component of the size is  *)
(* zero, and a Simulation just constructed from the Geometry has registered *)
(* each source of the Geometry once, in the Geometry's order: as a point    *)
(* source at its center when all its size components are zero, otherwise as *)
(* a volume source from center - size/2 to center + size/2, with the        *)
(* source's component, time profile and amplitude.                          *)

AllZero(size) == \A j \in 1..Len(size) : size[j] = 0

C9_Registration(source, call) ==
    LET size == Get(source.size)
        center == Get(source.center)
    IN  /\ call.component = source.component
        /\ call.amplitude = source.amplitude
        /\ call.instance = Get(source.instance)
        /\ IF AllZero(size)
           THEN /\ call.kind = "point"
                /\ call.at = <<center>>
           ELSE /\ call.kind = "volume"
                /\ call.at =
                     <<[j \in 1..Len(center) |-> 2 * center[j] - size[j]],
                       [j \in 1..Len(center) |-> 2 * center[j] + size[j]]>>

C9_SourcesRegistered ==
    /\ \A s \in 1..Len(sources) :
          is_point_source(sources[s]) = AllZero(Get(sources[s].size))
    /\ last.op = "Simulation" =>
          /\ Len(meep.fields_sources) = Len(geometry.sources)
          /\ \A i \in 1..Len(geometry.sources) :
                C9_Registration(sources[geometry.sources[i]],
                                meep.fields_sources[i])

\* A Simulation has registered a source whose size has a zero and a non-zero
\* component, twice added, as two volume sources.
C9_Witness ==
    /\ last.op = "Simulation" /\ last.exc = ""
    /\ Len(meep.fields_sources) = 2
    /\ meep.fields_sources[1].kind = "volume"
    /\ sources[geometry.sources[1]].size = Some(<<0, 2>>)

----------------------------------------------------------------------------
(* C10: the polygon list and the source list are the entities added with    *)
(* success, in call order; the regions registered with the material         *)
(* function are the polygons' regions in that order, each with the          *)
(* polarizabilities its material had, in insertion order; a Simulation just *)
(* constructed has received the polarizabilities region by region, each     *)
(* region's in insertion order, and the sources in the order of the list.   *)

\* The (omega, gamma) pairs of the polygons from index i on, in order.
RECURSIVE C10_Pairs(_, _)
C10_Pairs(polygons, i) ==
    IF i > Len(polygons) THEN <<>>
    ELSE LET triples == materials[blocks[polygons[i]].material].polarizabilities
         IN  [j \in 1..Len(triples) |-> <<triples[j][2], triples[j][3]>>]
             \o C10_Pairs(polygons, i + 1)

C10_Order ==
    /\ Len(meep.regions) = Len(geometry.polygons)
    /\ \A i \in 1..Len(geometry.polygons) :
          LET polygon == blocks[geometry.polygons[i]]
              region == meep.regions[i]
              triples == materials[polygon.material].polarizabilities
          IN  /\ region.epsilon = materials[polygon.material].epsilon
              /\ Len(region.polarizabilities) <= Len(triples)
              /\ region.polarizabilities =
                     SubSeq(triples, 1, Len(region.polarizabilities))
    /\ (last.op = "Simulation" /\ last.exc = "") =>
          /\ meep.structure_polarizabilities = C10_Pairs(geometry.polygons, 1)
          /\ Len(meep.fields_sources) = Len(geometry.sources)
          /\ \A i \in 1..Len(geometry.sources) :
                meep.fields_sources[i].instance =
                    Get(sources[geometry.sources[i]].instance)

C10_Step ==
    /\ geometry'.polygons # geometry.polygons =>
          last'.op = "add_polygon" /\ last'.exc = ""
    /\ geometry'.sources # geometry.sources =>
          last'.op = "add_source" /\ last'.exc = ""
    /\ (last'.op = "add_polygon" /\ last'.exc = "") =>
          /\ geometry'.polygons = Append(geometry.polygons, last'.obj)
          /\ Len(meep'.regions) = Len(meep.regions) + 1
          /\ SubSeq(meep'.regions, 1, Len(meep.regions)) = meep.regions
          /\ meep'.regions[Len(meep'.regions)].polarizabilities =
                 materials[blocks[last'.obj].material].polarizabilities
    /\ (last'.op = "add_source" /\ last'.exc = "") =>
          geometry'.sources = Append(geometry.sources, last'.obj)
    /\ \A m \in 1..Len(materials) :
          /\ Len(materials'[m].polarizabilities)
                 >= Len(materials[m].polarizabilities)
          /\ SubSeq(materials'[m].polarizabilities, 1,
                    Len(materials[m].polarizabilities))
                 = materials[m].polarizabilities

====
